---- MODULE Spec2Model ----
(***************************************************************************)
(* Model of the evaluation scripts of Reinforce-Ada:                       *)
(*   eval/compute_score.py  extract_boxed, compute_score, main             *)
(*   eval/merge_data.py     main                                           *)
(* Strings are sequences of one-character strings; Python indices are kept *)
(* 0-based as in the source (CharAt, Slice translate them).                *)
(***************************************************************************)
EXTENDS Integers, Sequences, FiniteSets, TLC

VARIABLES
    \* extract_boxed (compute_score.py:33-58)
    text,          \* the argument
    ichar,         \* loop index of the scan, 0-based
    stack,         \* indices of the "{" not yet matched
    boxed_strs,    \* the captured candidates, in closing order
    result,        \* the returned string
    xpc,           \* "idle" | "scan" | "returned"
    \* compute_score (compute_score.py:61-78)
    model_output,      \* the response text
    verifier,          \* what verify_func does on this call
    timeout_score,     \* the parameter
    prediction_boxed,  \* the prediction handed to verify_func
    ret_score,         \* the returned score
    cpc,               \* "idle" | "call" | "returned"
    \* main (compute_score.py:81-120)
    ds,                \* the loaded samples
    is_minerva_math,   \* the grading strategy of the run
    save_score,        \* script_args.save_score
    isample,           \* i of the loop: index of the sample being scored
    iresponse,         \* index of the response being scored in the sample
    tmp_scores,
    all_scores,
    record_file,       \* the lines of record_path
    score_file,        \* the records of the _score.jsonl file
    exc_line,          \* the line an uncaught exception left main at, 0 if none
    mpc,               \* "idle" | "loop" | "responses" | "save" | "done" | "raised"
    \* main (merge_data.py:26-50)
    shards,            \* the contents of the files 0.json, 1.json, ...
    idir,              \* index of the next shard to load, 0-based
    gathered_data,
    ishuffle,          \* index random.shuffle swaps next, 0-based
    reported,          \* the count printed at line 44, -1 before
    output_file,       \* the records written to output_dir
    gpc                \* "idle" | "load" | "shuffle" | "write" | "done"

xvars == <<text, ichar, stack, boxed_strs, result, xpc>>

cvars == <<model_output, verifier, timeout_score, prediction_boxed, ret_score, cpc>>

mvars == <<ds, is_minerva_math, save_score, isample, iresponse, tmp_scores, all_scores,
           record_file, score_file, exc_line, mpc>>

gvars == <<shards, idir, gathered_data, ishuffle, reported, output_file, gpc>>

vars == <<xvars, cvars, mvars, gvars>>

----------------------------------------------------------------------------
\* Bounds of the model

\* longest text, in items of TextItems
MaxTokens == 4

\* largest timeout_score tried
MaxTimeoutScore == 2

\* most samples in a dataset
MaxSamples == 2

\* most responses in a dataset, all samples together
MaxTotalResponses == 3

\* most shard files (num_datasets)
MaxShards == 2

\* most records in the shards, all shards together
MaxTotalRecords == 3

----------------------------------------------------------------------------
\* Characters and strings

BOXED == <<"\\", "b", "o", "x", "e", "d">>

LBRACE == "{"

RBRACE == "}"

\* \s of the re module: the ASCII whitespace characters (the vertical tab,
\* which has no escape here, left out)
IsSpace(c) == c \in {" ", "\t", "\n", "\r", "\f"}

\* the class [a-zA-Z0-9]
IsAlnum(c) ==
    c \in {"a","b","c","d","e","f","g","h","i","j","k","l","m",
           "n","o","p","q","r","s","t","u","v","w","x","y","z",
           "A","B","C","D","E","F","G","H","I","J","K","L","M",
           "N","O","P","Q","R","S","T","U","V","W","X","Y","Z",
           "0","1","2","3","4","5","6","7","8","9"}

\* text[i] of Python, i 0-based
CharAt(s, i) == s[i + 1]

\* text[a:b] of Python for 0 <= a and b <= len(text)
Slice(s, a, b) == SubSeq(s, a + 1, b)

\* str.endswith
EndsWith(s, suffix) ==
    /\ Len(s) >= Len(suffix)
    /\ SubSeq(s, Len(s) - Len(suffix) + 1, Len(s)) = suffix

\* The pieces the input texts are built from.
TextItems ==
    { <<LBRACE>>, <<RBRACE>>, <<" ">>, <<"5">>,
      BOXED, BOXED \o <<LBRACE>>, BOXED \o <<" ">>,
      BOXED \o <<LBRACE, "5", RBRACE>> }

RECURSIVE TextsUpTo(_)
TextsUpTo(k) ==
    IF k = 0 THEN { <<>> }
    ELSE LET prev == TextsUpTo(k - 1)
         IN  prev \cup { t \o item : t \in prev, item \in TextItems }

Texts == TextsUpTo(MaxTokens)

----------------------------------------------------------------------------
\* re.search(r"\\boxed\s+([a-zA-Z0-9]+)", text)

\* number of consecutive characters from index i (0-based) on that are spaces
RECURSIVE SpaceRun(_, _)
SpaceRun(s, i) ==
    IF i < Len(s) /\ IsSpace(CharAt(s, i)) THEN 1 + SpaceRun(s, i + 1) ELSE 0

\* number of consecutive characters from index i (0-based) on that are alphanumeric
RECURSIVE AlnumRun(_, _)
AlnumRun(s, i) ==
    IF i < Len(s) /\ IsAlnum(CharAt(s, i)) THEN 1 + AlnumRun(s, i + 1) ELSE 0

\* MatchAt with \s* written for \s+
MatchAt_OptionalSpace(s, p) ==
    /\ p + Len(BOXED) <= Len(s)
    /\ Slice(s, p, p + Len(BOXED)) = BOXED
    /\ AlnumRun(s, p + Len(BOXED) + SpaceRun(s, p + Len(BOXED))) >= 1

\* the pattern matches with its first character at index p (0-based)
MatchAt(s, p) ==
    /\ p + Len(BOXED) <= Len(s)
    /\ Slice(s, p, p + Len(BOXED)) = BOXED
    /\ SpaceRun(s, p + Len(BOXED)) >= 1
    /\ AlnumRun(s, p + Len(BOXED) + SpaceRun(s, p + Len(BOXED))) >= 1

\* group(1) of the match at p
GroupAt(s, p) ==
    LET g == p + Len(BOXED) + SpaceRun(s, p + Len(BOXED))
    IN  Slice(s, g, g + AlnumRun(s, g))

\* the scan of re.search for the leftmost match, from index p on
RECURSIVE SearchFrom(_, _)
SearchFrom(s, p) ==
    IF p >= Len(s) THEN [found |-> FALSE, group |-> <<>>]
    ELSE IF MatchAt(s, p) THEN [found |-> TRUE, group |-> GroupAt(s, p)]
    ELSE SearchFrom(s, p + 1)

re_search(s) == SearchFrom(s, 0)

----------------------------------------------------------------------------
\* extract_boxed, one action per iteration of the scan

\* extract_boxed is not running
IdleExtract ==
    /\ text = <<>>
    /\ ichar = 0
    /\ stack = <<>>
    /\ boxed_strs = <<>>
    /\ result = <<>>
    /\ xpc = "idle"

\* compute_score is not running
IdleCompute ==
    /\ model_output = <<>>
    /\ verifier = [kind |-> "return", score |-> 0, exc |-> "none"]
    /\ timeout_score = 0
    /\ prediction_boxed = <<>>
    /\ ret_score = 0
    /\ cpc = "idle"

\* main of compute_score.py is not running
IdleMain ==
    /\ ds = <<>>
    /\ is_minerva_math = FALSE
    /\ save_score = FALSE
    /\ isample = 0
    /\ iresponse = 0
    /\ tmp_scores = <<>>
    /\ all_scores = <<>>
    /\ record_file = <<>>
    /\ score_file = <<>>
    /\ exc_line = 0
    /\ mpc = "idle"

\* main of merge_data.py is not running
IdleMerge ==
    /\ shards = <<>>
    /\ idir = 0
    /\ gathered_data = <<>>
    /\ ishuffle = 0
    /\ reported = -1
    /\ output_file = <<>>
    /\ gpc = "idle"

InitExtract ==
    /\ text \in Texts
    /\ ichar = 0
    /\ stack = <<>>
    /\ boxed_strs = <<>>
    /\ result = <<>>
    /\ xpc = "scan"
    /\ IdleCompute
    /\ IdleMain
    /\ IdleMerge

\* line 41-42
ScanOpen ==
    /\ xpc = "scan"
    /\ ichar < Len(text)
    /\ CharAt(text, ichar) = LBRACE
    /\ stack' = Append(stack, ichar)
    /\ ichar' = ichar + 1
    /\ UNCHANGED <<text, boxed_strs, result, xpc>>
    /\ UNCHANGED <<cvars, mvars, gvars>>

\* ScanCloseUnmatched skipping the unmatched "}" instead of returning
ScanCloseUnmatched_Skip ==
    /\ xpc = "scan"
    /\ ichar < Len(text)
    /\ CharAt(text, ichar) = RBRACE
    /\ Len(stack) = 0
    /\ ichar' = ichar + 1
    /\ UNCHANGED <<text, stack, boxed_strs, result, xpc>>
    /\ UNCHANGED <<cvars, mvars, gvars>>

\* line 43-45
ScanCloseUnmatched ==
    /\ xpc = "scan"
    /\ ichar < Len(text)
    /\ CharAt(text, ichar) = RBRACE
    /\ Len(stack) = 0
    /\ result' = <<>>
    /\ xpc' = "returned"
    /\ UNCHANGED <<text, ichar, stack, boxed_strs>>
    /\ UNCHANGED <<cvars, mvars, gvars>>

\* ScanClose popping the oldest open brace instead of the newest
ScanClose_PopFirst ==
    /\ xpc = "scan"
    /\ ichar < Len(text)
    /\ CharAt(text, ichar) = RBRACE
    /\ Len(stack) > 0
    /\ LET last_open_start == stack[1]
       IN  /\ stack' = Tail(stack)
           /\ boxed_strs' =
                IF EndsWith(Slice(text, 0, last_open_start), BOXED)
                THEN Append(boxed_strs, Slice(text, last_open_start + 1, ichar))
                ELSE boxed_strs
    /\ ichar' = ichar + 1
    /\ UNCHANGED <<text, result, xpc>>
    /\ UNCHANGED <<cvars, mvars, gvars>>

\* line 46-49
ScanClose ==
    /\ xpc = "scan"
    /\ ichar < Len(text)
    /\ CharAt(text, ichar) = RBRACE
    /\ Len(stack) > 0
    /\ LET last_open_start == stack[Len(stack)]
       IN  /\ stack' = SubSeq(stack, 1, Len(stack) - 1)
           /\ boxed_strs' =
                IF EndsWith(Slice(text, 0, last_open_start), BOXED)
                THEN Append(boxed_strs, Slice(text, last_open_start + 1, ichar))
                ELSE boxed_strs
    /\ ichar' = ichar + 1
    /\ UNCHANGED <<text, result, xpc>>
    /\ UNCHANGED <<cvars, mvars, gvars>>

\* any other character: the loop goes on
ScanOther ==
    /\ xpc = "scan"
    /\ ichar < Len(text)
    /\ CharAt(text, ichar) \notin {LBRACE, RBRACE}
    /\ ichar' = ichar + 1
    /\ UNCHANGED <<text, stack, boxed_strs, result, xpc>>
    /\ UNCHANGED <<cvars, mvars, gvars>>

\* ScanEnd returning the first candidate instead of the last
ScanEnd_FirstCandidate ==
    /\ xpc = "scan"
    /\ ichar = Len(text)
    /\ result' =
         IF Len(boxed_strs) > 0
         THEN boxed_strs[1]
         ELSE LET match == re_search(text)
              IN  IF match.found THEN match.group ELSE <<>>
    /\ xpc' = "returned"
    /\ UNCHANGED <<text, ichar, stack, boxed_strs>>
    /\ UNCHANGED <<cvars, mvars, gvars>>

\* ScanEnd returning the empty string when a "{" is still open
ScanEnd_EmptyOnOpen ==
    /\ xpc = "scan"
    /\ ichar = Len(text)
    /\ result' =
         IF Len(stack) > 0 THEN <<>>
         ELSE IF Len(boxed_strs) > 0
         THEN boxed_strs[Len(boxed_strs)]
         ELSE LET match == re_search(text)
              IN  IF match.found THEN match.group ELSE <<>>
    /\ xpc' = "returned"
    /\ UNCHANGED <<text, ichar, stack, boxed_strs>>
    /\ UNCHANGED <<cvars, mvars, gvars>>

\* line 50-58
ScanEnd ==
    /\ xpc = "scan"
    /\ ichar = Len(text)
    /\ result' =
         IF Len(boxed_strs) > 0
         THEN boxed_strs[Len(boxed_strs)]
         ELSE LET match == re_search(text)
              IN  IF match.found THEN match.group ELSE <<>>
    /\ xpc' = "returned"
    /\ UNCHANGED <<text, ichar, stack, boxed_strs>>
    /\ UNCHANGED <<cvars, mvars, gvars>>

NextExtract ==
    \/ ScanOpen
    \/ ScanCloseUnmatched
    \/ ScanClose
    \/ ScanOther
    \/ ScanEnd

SpecExtract == InitExtract /\ [][NextExtract]_vars

----------------------------------------------------------------------------
\* extract_boxed as a function of the text (the same scan, run to its end)

RECURSIVE ScanFrom(_, _, _, _)
ScanFrom(t, ic, stk, boxes) ==
    IF ic = Len(t)
    THEN IF Len(boxes) > 0 THEN boxes[Len(boxes)]
         ELSE LET match == re_search(t)
              IN  IF match.found THEN match.group ELSE <<>>
    ELSE IF CharAt(t, ic) = LBRACE THEN ScanFrom(t, ic + 1, Append(stk, ic), boxes)
    ELSE IF CharAt(t, ic) = RBRACE
    THEN IF Len(stk) = 0 THEN <<>>
         ELSE LET last_open_start == stk[Len(stk)]
              IN  ScanFrom(t, ic + 1, SubSeq(stk, 1, Len(stk) - 1),
                           IF EndsWith(Slice(t, 0, last_open_start), BOXED)
                           THEN Append(boxes, Slice(t, last_open_start + 1, ic))
                           ELSE boxes)
    ELSE ScanFrom(t, ic + 1, stk, boxes)

extract_boxed(t) == ScanFrom(t, 0, <<>>, <<>>)

----------------------------------------------------------------------------
\* compute_score

\* What a grading call does: it returns a score or raises an exception.
Returns(sc) == [kind |-> "return", score |-> sc, exc |-> "none"]

Raises(e) == [kind |-> "raise", score |-> 0, exc |-> e]

\* verify_func returns 0.0 or 1.0, raises math_verify's TimeoutException, or
\* raises some other exception (ValueError stands for them).
VerifierOutcomes ==
    { Returns(0), Returns(1), Raises("TimeoutException"), Raises("ValueError") }

\* The exception classes: math_verify.errors.TimeoutException derives from
\* Exception, as ValueError does.
BaseClass(cls) ==
    CASE cls = "TimeoutException" -> "Exception"
      [] cls = "ValueError" -> "Exception"
      [] cls = "Exception" -> "BaseException"
      [] OTHER -> "object"

\* isinstance(an exception of class e, cls)
IsInstance(e, cls) ==
    \/ e = cls
    \/ BaseClass(e) = cls
    \/ BaseClass(BaseClass(e)) = cls

\* the except clauses of the try statement, in the order written (lines 73, 75)
ExceptClauses == <<"Exception", "TimeoutException">>

\* the clause Python runs: the first one the exception is an instance of, 0 if none
HandlerFor(e) ==
    LET fit == {h \in 1..Len(ExceptClauses) : IsInstance(e, ExceptClauses[h])}
    IN  IF fit = {} THEN 0 ELSE CHOOSE h \in fit : \A g \in fit : h <= g

\* timeout_score when the caller gives none (line 61)
DefaultTimeoutScore == 0

\* lines 66-78: [raised, value], value the returned score
compute_score(outcome, tscore) ==
    IF outcome.kind = "return" THEN [raised |-> FALSE, value |-> outcome.score]
    ELSE LET h == HandlerFor(outcome.exc)
         IN  IF h = 1 THEN [raised |-> FALSE, value |-> 0]
             ELSE IF h = 2 THEN [raised |-> FALSE, value |-> tscore]
             ELSE [raised |-> TRUE, value |-> 0]

\* the responses compute_score is tried on
ScoreTexts == TextItems \cup { <<>>, <<RBRACE>> \o BOXED \o <<LBRACE, "5", RBRACE>> }

InitCompute ==
    /\ model_output \in ScoreTexts
    /\ verifier \in VerifierOutcomes
    /\ timeout_score \in 0..MaxTimeoutScore
    /\ prediction_boxed = <<>>
    /\ ret_score = 0
    /\ cpc = "call"
    /\ IdleExtract
    /\ IdleMain
    /\ IdleMerge

\* one call of compute_score
ComputeScoreCall ==
    /\ cpc = "call"
    /\ prediction_boxed' = BOXED \o <<LBRACE>> \o extract_boxed(model_output) \o <<RBRACE>>
    /\ LET r == compute_score(verifier, timeout_score)
       IN  /\ ret_score' = r.value
           /\ cpc' = IF r.raised THEN "raised" ELSE "returned"
    /\ UNCHANGED <<model_output, verifier, timeout_score>>
    /\ UNCHANGED <<xvars, mvars, gvars>>

NextCompute == ComputeScoreCall

SpecCompute == InitCompute /\ [][NextCompute]_vars

----------------------------------------------------------------------------
\* main of compute_score.py

\* A response is told apart by what grading it does.
Responses == VerifierOutcomes

RECURSIVE SeqsOfLen(_, _)
SeqsOfLen(S, n) ==
    IF n = 0 THEN { <<>> }
    ELSE { Append(q, x) : q \in SeqsOfLen(S, n - 1), x \in S }

\* the datasets of n samples holding at most budget responses together
RECURSIVE DatasetsOf(_, _)
DatasetsOf(n, budget) ==
    IF n = 0 THEN { <<>> }
    ELSE UNION { { <<[gt |-> "gt", responses |-> rs]>> \o rest :
                       rs \in SeqsOfLen(Responses, l),
                       rest \in DatasetsOf(n - 1, budget - l) }
                 : l \in 0..budget }

Datasets == UNION { DatasetsOf(n, MaxTotalResponses) : n \in 0..MaxSamples }

RECURSIVE SumSeq(_)
SumSeq(q) == IF q = <<>> THEN 0 ELSE Head(q) + SumSeq(Tail(q))

RECURSIVE Flatten(_)
Flatten(rows) == IF rows = <<>> THEN <<>> ELSE Head(rows) \o Flatten(Tail(rows))

\* the decimals np.round keeps (line 107)
Decimals == 4

\* num / den rounded to an integer, halves to the even one, as np.round does
RoundHalfEven(num, den) ==
    LET q == num \div den
        r == num % den
    IN  IF 2 * r < den THEN q
        ELSE IF 2 * r > den THEN q + 1
        ELSE IF q % 2 = 0 THEN q ELSE q + 1

\* np.mean of a list of lists. A list of rows of one length becomes a 2-d array,
\* whose mean is the sum over rows * columns, nan when it has no element; rows
\* of different lengths make no array: numpy raises (ValueError, or TypeError
\* from the object array of older versions).
np_mean(rows) ==
    IF \E a \in 1..Len(rows) : \E b \in 1..Len(rows) : Len(rows[a]) # Len(rows[b])
    THEN [raised |-> TRUE, nan |-> FALSE, num |-> 0, den |-> 1]
    ELSE LET count == IF Len(rows) = 0 THEN 0 ELSE Len(rows) * Len(rows[1])
         IN  IF count = 0
             THEN [raised |-> FALSE, nan |-> TRUE, num |-> 0, den |-> 1]
             ELSE [raised |-> FALSE, nan |-> FALSE,
                   num |-> SumSeq(Flatten(rows)), den |-> count]

\* np.round(mean, 4), in units of 10^-4; "nan" for nan
np_round(m) ==
    IF m.nan THEN "nan" ELSE RoundHalfEven((10 ^ Decimals) * m.num, m.den)

\* the score of one response under the strategy of the run (lines 98-101):
\* math_equal(extract_answer(...)) is called bare, compute_score with the
\* default timeout_score
score_response(minerva, response) ==
    IF minerva
    THEN IF response.kind = "return" THEN [raised |-> FALSE, value |-> response.score]
         ELSE [raised |-> TRUE, value |-> 0]
    ELSE compute_score(response, DefaultTimeoutScore)

InitMain ==
    /\ ds \in Datasets
    /\ is_minerva_math \in BOOLEAN
    /\ save_score \in BOOLEAN
    /\ isample = 0
    /\ iresponse = 0
    /\ tmp_scores = <<>>
    /\ all_scores = <<>>
    /\ record_file = <<>>
    /\ score_file = <<>>
    /\ exc_line = 0
    /\ mpc = "loop"
    /\ IdleExtract
    /\ IdleCompute
    /\ IdleMerge

\* BeginSample leaving tmp_scores as the sample before left it
BeginSample_KeepTmp ==
    /\ mpc = "loop"
    /\ isample < Len(ds)
    /\ iresponse' = 0
    /\ mpc' = "responses"
    /\ UNCHANGED <<ds, is_minerva_math, save_score, isample, tmp_scores, all_scores,
                   record_file, score_file, exc_line>>
    /\ UNCHANGED <<xvars, cvars, gvars>>

\* lines 93-96: the next sample
BeginSample ==
    /\ mpc = "loop"
    /\ isample < Len(ds)
    /\ tmp_scores' = <<>>
    /\ iresponse' = 0
    /\ mpc' = "responses"
    /\ UNCHANGED <<ds, is_minerva_math, save_score, isample, all_scores,
                   record_file, score_file, exc_line>>
    /\ UNCHANGED <<xvars, cvars, gvars>>

\* lines 97-102: one response
ScoreResponse ==
    /\ mpc = "responses"
    /\ iresponse < Len(ds[isample + 1].responses)
    /\ LET r == score_response(is_minerva_math, ds[isample + 1].responses[iresponse + 1])
       IN  IF r.raised
           THEN /\ mpc' = "raised"
                /\ exc_line' = IF is_minerva_math THEN 99 ELSE 101
                /\ UNCHANGED <<iresponse, tmp_scores>>
           ELSE /\ tmp_scores' = Append(tmp_scores, r.value)
                /\ iresponse' = iresponse + 1
                /\ UNCHANGED <<mpc, exc_line>>
    /\ UNCHANGED <<ds, is_minerva_math, save_score, isample, all_scores,
                   record_file, score_file>>
    /\ UNCHANGED <<xvars, cvars, gvars>>

\* line 103
EndSample ==
    /\ mpc = "responses"
    /\ iresponse = Len(ds[isample + 1].responses)
    /\ all_scores' = Append(all_scores, tmp_scores)
    /\ isample' = isample + 1
    /\ mpc' = "loop"
    /\ UNCHANGED <<ds, is_minerva_math, save_score, iresponse, tmp_scores,
                   record_file, score_file, exc_line>>
    /\ UNCHANGED <<xvars, cvars, gvars>>

\* lines 106-108: the file is opened (and so emptied) before the mean is taken
Summarize ==
    /\ mpc = "loop"
    /\ isample = Len(ds)
    /\ LET m == np_mean(all_scores)
       IN  IF m.raised
           THEN /\ record_file' = <<>>
                /\ mpc' = "raised"
                /\ exc_line' = 107
           ELSE /\ record_file' = << <<"dataset_path", np_round(m)>> >>
                /\ mpc' = IF save_score THEN "save" ELSE "done"
                /\ UNCHANGED exc_line
    /\ UNCHANGED <<ds, is_minerva_math, save_score, isample, iresponse, tmp_scores, all_scores,
                   score_file>>
    /\ UNCHANGED <<xvars, cvars, gvars>>

\* lines 111-120
SaveScores ==
    /\ mpc = "save"
    /\ score_file' = [n \in 1..Len(ds) |->
                        [gt |-> ds[n].gt, responses |-> ds[n].responses,
                         scores |-> all_scores[n]]]
    /\ mpc' = "done"
    /\ UNCHANGED <<ds, is_minerva_math, save_score, isample, iresponse, tmp_scores, all_scores,
                   record_file, exc_line>>
    /\ UNCHANGED <<xvars, cvars, gvars>>

NextMain ==
    \/ BeginSample
    \/ ScoreResponse
    \/ EndSample
    \/ Summarize
    \/ SaveScores

SpecScore == InitMain /\ [][NextMain]_vars

----------------------------------------------------------------------------
\* main of merge_data.py

\* the records a shard may hold; one record may occur more than once
MergeRecords == {"r1", "r2"}

\* the lists of n shards holding at most budget records together
RECURSIVE ShardListsOf(_, _)
ShardListsOf(n, budget) ==
    IF n = 0 THEN { <<>> }
    ELSE UNION { { <<sh>> \o rest :
                       sh \in SeqsOfLen(MergeRecords, l),
                       rest \in ShardListsOf(n - 1, budget - l) }
                 : l \in 0..budget }

ShardLists == UNION { ShardListsOf(n, MaxTotalRecords) : n \in 0..MaxShards }

InitMerge ==
    /\ shards \in ShardLists
    /\ idir = 0
    /\ gathered_data = <<>>
    /\ ishuffle = 0
    /\ reported = -1
    /\ output_file = <<>>
    /\ gpc = "load"
    /\ IdleExtract
    /\ IdleCompute
    /\ IdleMain

\* the records of q that are not in seen, each once, in order
RECURSIVE Unseen(_, _)
Unseen(q, seen) ==
    IF q = <<>> THEN <<>>
    ELSE IF Head(q) \in seen THEN Unseen(Tail(q), seen)
    ELSE <<Head(q)>> \o Unseen(Tail(q), seen \cup {Head(q)})

\* LoadShard leaving out the records gathered already
LoadShard_Dedup ==
    /\ gpc = "load"
    /\ idir < Len(shards)
    /\ gathered_data' = gathered_data \o
            Unseen(shards[idir + 1], {gathered_data[n] : n \in 1..Len(gathered_data)})
    /\ idir' = idir + 1
    /\ UNCHANGED <<shards, ishuffle, reported, output_file, gpc>>
    /\ UNCHANGED <<xvars, cvars, mvars>>

\* lines 37-41: every sample of the next shard is appended
LoadShard ==
    /\ gpc = "load"
    /\ idir < Len(shards)
    /\ gathered_data' = gathered_data \o shards[idir + 1]
    /\ idir' = idir + 1
    /\ UNCHANGED <<shards, ishuffle, reported, output_file, gpc>>
    /\ UNCHANGED <<xvars, cvars, mvars>>

\* line 43, entry of random.shuffle: it walks i from len - 1 down to 1
ShuffleBegin ==
    /\ gpc = "load"
    /\ idir = Len(shards)
    /\ ishuffle' = Len(gathered_data) - 1
    /\ gpc' = "shuffle"
    /\ UNCHANGED <<shards, idir, gathered_data, reported, output_file>>
    /\ UNCHANGED <<xvars, cvars, mvars>>

\* line 43, one step of random.shuffle: x[i], x[j] = x[j], x[i] for a random j <= i
ShuffleStep ==
    /\ gpc = "shuffle"
    /\ ishuffle >= 1
    /\ \E jrand \in 0..ishuffle :
         gathered_data' = [gathered_data EXCEPT ![ishuffle + 1] = gathered_data[jrand + 1],
                                                ![jrand + 1] = gathered_data[ishuffle + 1]]
    /\ ishuffle' = ishuffle - 1
    /\ UNCHANGED <<shards, idir, reported, output_file, gpc>>
    /\ UNCHANGED <<xvars, cvars, mvars>>

\* line 44
ReportCount ==
    /\ gpc = "shuffle"
    /\ ishuffle < 1
    /\ reported' = Len(gathered_data)
    /\ gpc' = "write"
    /\ UNCHANGED <<shards, idir, gathered_data, ishuffle, output_file>>
    /\ UNCHANGED <<xvars, cvars, mvars>>

\* lines 47-50: one line per gathered record
WriteOutput ==
    /\ gpc = "write"
    /\ output_file' = [n \in 1..Len(gathered_data) |-> gathered_data[n]]
    /\ gpc' = "done"
    /\ UNCHANGED <<shards, idir, gathered_data, ishuffle, reported>>
    /\ UNCHANGED <<xvars, cvars, mvars>>

NextMerge ==
    \/ LoadShard
    \/ ShuffleBegin
    \/ ShuffleStep
    \/ ReportCount
    \/ WriteOutput

SpecMerge == InitMerge /\ [][NextMerge]_vars

----------------------------------------------------------------------------
\* The four programs together

Init == InitExtract \/ InitCompute \/ InitMain \/ InitMerge

Next == NextExtract \/ NextCompute \/ NextMain \/ NextMerge

Spec == Init /\ [][Next]_vars

----------------------------------------------------------------------------
\* Brace structure of a text, stated by counting (no stack)

\* +1 for "{", -1 for "}", 0 for any other character
BraceStep(c) == IF c = LBRACE THEN 1 ELSE IF c = RBRACE THEN -1 ELSE 0

\* <<d[0], ..., d[n]>> shifted by one: element n + 1 is the number of "{" minus
\* the number of "}" among the first n characters
RECURSIVE DepthPrefix(_, _)
DepthPrefix(t, n) ==
    IF n = 0 THEN <<0>>
    ELSE LET prev == DepthPrefix(t, n - 1)
         IN  Append(prev, prev[n] + BraceStep(t[n]))

\* d[n]: the number of "{" minus the number of "}" among the first n characters
BraceDepth(t) ==
    LET pre == DepthPrefix(t, Len(t)) IN [n \in 0..Len(t) |-> pre[n + 1]]

\* some "}" is met while no "{" is open
HasUnmatchedClose(t) ==
    LET d == BraceDepth(t) IN \E n \in 1..Len(t) : d[n] < 0

\* the position (1-based) of the "}" matching the "{" at position i, 0 if none
Closer(t, d, i) ==
    LET below == {j \in (i + 1)..Len(t) : d[j] < d[i]}
    IN  IF below = {} THEN 0
        ELSE CHOOSE j \in below : \A k \in below : j <= k

\* some "{" is never closed
HasUnclosedOpen(t) ==
    LET d == BraceDepth(t)
    IN  \E i \in 1..Len(t) : t[i] = LBRACE /\ Closer(t, d, i) = 0

\* the matched pairs <<i, j>> (1-based) whose "{" directly follows \boxed
BoxedPairs(t) ==
    LET d == BraceDepth(t)
    IN  {<<i, Closer(t, d, i)>> : i \in
            {i \in 1..Len(t) :
                /\ t[i] = LBRACE
                /\ Closer(t, d, i) # 0
                /\ i > Len(BOXED)
                /\ \A k \in 1..Len(BOXED) : t[i - Len(BOXED) - 1 + k] = BOXED[k]}}

\* the content of the boxed pair that closes last
LastBoxedContent(t) ==
    LET pairs == BoxedPairs(t)
        last == CHOOSE pr \in pairs : \A q \in pairs : q[2] <= pr[2]
    IN  SubSeq(t, last[1] + 1, last[2] - 1)

\* \boxed stands at index p (0-based)
BoxedAt(t, p) ==
    /\ p + Len(BOXED) <= Len(t)
    /\ \A k \in 1..Len(BOXED) : t[p + k] = BOXED[k]

\* after the \boxed at p come w >= 1 spaces and then a >= 1 letters or digits,
\* both runs as long as they can be
Occurrence(t, p, w, a) ==
    LET q == p + Len(BOXED)
    IN  /\ q + w + a <= Len(t)
        /\ \A k \in 1..w : IsSpace(t[q + k])
        /\ ~IsSpace(t[q + w + 1])
        /\ \A k \in 1..a : IsAlnum(t[q + w + k])
        /\ (q + w + a = Len(t) \/ ~IsAlnum(t[q + w + a + 1]))

Occurrences(t) ==
    UNION { {<<p, w, a>> : w \in {w \in 1..(Len(t) - p) :
                                   \E a \in 1..(Len(t) - p) : Occurrence(t, p, w, a)},
                           a \in {a \in 1..(Len(t) - p) :
                                   \E w \in 1..(Len(t) - p) : Occurrence(t, p, w, a)}}
            : p \in {p \in 0..Len(t) : BoxedAt(t, p)} }

\* the token of the first occurrence, the empty string when there is none
FirstToken(t) ==
    LET occ == Occurrences(t)
    IN  IF occ = {} THEN <<>>
        ELSE LET o == CHOOSE o \in occ : \A q \in occ : o[1] <= q[1]
             IN  SubSeq(t, o[1] + Len(BOXED) + o[2] + 1, o[1] + Len(BOXED) + o[2] + o[3])

\* r has no "}" without a "{" before it and no "{" left open
Balanced(r) ==
    LET d == BraceDepth(r)
    IN  /\ \A n \in 1..Len(r) : d[n] >= 0
        /\ d[Len(r)] = 0

IsSubstring(r, t) ==
    \E a \in 1..(Len(t) + 1) : a + Len(r) - 1 <= Len(t) /\ SubSeq(t, a, a + Len(r) - 1) = r

\* the indices (0-based) of the "{" among the first k characters of t that no
\* "}" among those characters matches
UnmatchedOpens(t, k) ==
    LET d == BraceDepth(t)
    IN  {i \in 0..(k - 1) :
            /\ t[i + 1] = LBRACE
            /\ \A j \in (i + 2)..k : d[j] >= d[i + 1]}

\* extract_boxed has returned
Returned == xpc = "returned"

\* it returned at line 45
ReturnedEarly == xpc = "returned" /\ ichar < Len(text)

\* it returned at line 51
ReturnedCandidate == xpc = "returned" /\ ichar = Len(text) /\ Len(boxed_strs) > 0

----------------------------------------------------------------------------
\* Claims on extract_boxed

\* C4: a text in which some "}" is met while no "{" is open yields the empty
\* string, whatever follows that "}" and whatever was captured before it.
C4_UnmatchedCloseEmpty ==
    (Returned /\ HasUnmatchedClose(text)) => result = <<>>

\* a well-formed \boxed{...} follows the unmatched "}"
C4_Witness ==
    /\ ReturnedEarly
    /\ HasUnmatchedClose(text)
    /\ \E pr \in BoxedPairs(text) : pr[1] > ichar + 1

\* C5: with no unmatched "}" and at least one boxed pair, the result is the text
\* strictly between the braces of the boxed pair that closes last, verbatim.
C5_LastBoxedWins ==
    (Returned /\ ~HasUnmatchedClose(text) /\ BoxedPairs(text) # {})
        => result = LastBoxedContent(text)

\* two boxed pairs, the result holding a nested brace
C5_Witness ==
    /\ Returned
    /\ ~HasUnmatchedClose(text)
    /\ Cardinality(BoxedPairs(text)) >= 2
    /\ \E k \in 1..Len(result) : result[k] = LBRACE

\* C6: with no unmatched "}" and no boxed pair, the result is the token of the
\* first "\boxed, spaces, letters/digits" occurrence, empty when there is none;
\* when a candidate was captured the result is that candidate, even an empty one.
C6_Fallback ==
    /\ (Returned /\ ~HasUnmatchedClose(text) /\ BoxedPairs(text) = {})
            => result = FirstToken(text)
    /\ ReturnedCandidate => result = boxed_strs[Len(boxed_strs)]

\* the fallback found a token
C6_Witness ==
    /\ Returned
    /\ ~HasUnmatchedClose(text)
    /\ BoxedPairs(text) = {}
    /\ result # <<>>

\* the fallback would find a token, and an empty candidate wins
C6_WitnessEmptyCandidate ==
    /\ ReturnedCandidate
    /\ result = <<>>
    /\ FirstToken(text) # <<>>

\* C7 as stated: malformed nesting of either kind yields the empty string.
C7_MalformedEmpty ==
    (Returned /\ (HasUnmatchedClose(text) \/ HasUnclosedOpen(text))) => result = <<>>

\* The content of the last boxed pair, or the fallback token.
WellFormedResult(t) ==
    IF BoxedPairs(t) # {} THEN LastBoxedContent(t) ELSE FirstToken(t)

\* C7 amended: an unmatched "}" yields the empty string; a "{" left open does
\* not: such a text, with no unmatched "}", yields the content of the last boxed
\* pair, or the fallback token when there is no boxed pair.
C7_Amended ==
    /\ (Returned /\ HasUnmatchedClose(text)) => result = <<>>
    /\ (Returned /\ HasUnclosedOpen(text) /\ ~HasUnmatchedClose(text))
            => result = WellFormedResult(text)

\* a "{" is left open and the result is not empty
C7_Witness ==
    /\ Returned
    /\ HasUnclosedOpen(text)
    /\ ~HasUnmatchedClose(text)
    /\ result # <<>>

\* C10: at every step the stack holds, in increasing order, the indices of the
\* "{" seen so far that are not yet matched; a result taken from a candidate is
\* a contiguous piece of the text and is brace-balanced.
C10_StackAndBalance ==
    /\ \A a \in 1..Len(stack) : \A b \in 1..Len(stack) : a < b => stack[a] < stack[b]
    /\ {stack[a] : a \in 1..Len(stack)} = UnmatchedOpens(text, ichar)
    /\ ReturnedCandidate => (IsSubstring(result, text) /\ Balanced(result))

\* a candidate with a nested brace pair was returned
C10_Witness ==
    /\ ReturnedCandidate
    /\ \E k \in 1..Len(result) : result[k] = LBRACE
    /\ \E k \in 1..Len(result) : result[k] = RBRACE

----------------------------------------------------------------------------
\* Claims on compute_score and main of compute_score.py

\* an exception left the scoring loop
LoopAborted == mpc = "raised" /\ exc_line \in {99, 101}

\* the scoring loop ran to its end
LoopCompleted == isample = Len(ds) /\ mpc \in {"loop", "save", "done", "raised"} /\ ~LoopAborted

\* lines 106-108 were run
SummaryAttempted == mpc \in {"save", "done"} \/ (mpc = "raised" /\ exc_line = 107)

\* C1: under either strategy a response whose grading raises still gets a
\* score, no exception leaves the scoring loop, and the loop scores every
\* response of every sample.
C1_FailureIsolation ==
    /\ ~LoopAborted
    /\ \A a \in 1..Len(all_scores) : \A k \in 1..Len(all_scores[a]) : all_scores[a][k] \in Int

\* C2: once the loop is over there is one score list per sample, in input
\* order, as long as the sample's responses, entry k the score of response k;
\* the saved records carry these lists as their scores.
C2_ScoresAligned ==
    /\ LoopCompleted =>
         /\ Len(all_scores) = Len(ds)
         /\ \A a \in 1..Len(ds) :
              /\ Len(all_scores[a]) = Len(ds[a].responses)
              /\ \A k \in 1..Len(ds[a].responses) :
                   all_scores[a][k] = score_response(is_minerva_math, ds[a].responses[k]).value
    /\ (mpc = "done" /\ save_score) =>
         /\ Len(score_file) = Len(ds)
         /\ \A a \in 1..Len(ds) :
              /\ score_file[a].responses = ds[a].responses
              /\ score_file[a].gt = ds[a].gt
              /\ score_file[a].scores = all_scores[a]

\* scores were saved for a sample whose responses got different scores, one of
\* them from a grading that raised
C2_Witness ==
    /\ mpc = "done"
    /\ Len(score_file) >= 1
    /\ \E a \in 1..Len(ds) :
         /\ Len(ds[a].responses) >= 2
         /\ score_file[a].scores[1] # score_file[a].scores[2]
         /\ \E k \in 1..Len(ds[a].responses) : ds[a].responses[k].kind = "raise"

\* C3: when verify_func raises TimeoutException compute_score returns
\* timeout_score, whatever its value; any other exception gives 0.
C3_TimeoutFallback ==
    cpc = "returned" =>
        /\ verifier = Raises("TimeoutException") => ret_score = timeout_score
        /\ verifier = Raises("ValueError") => ret_score = 0

\* the sum and the number of all scores, all samples together
TotalScore == SumSeq(Flatten(all_scores))

TotalResponses == Len(Flatten(all_scores))

\* C8: for a scored collection with at least one response, samples of different
\* sizes included, exactly one summary line is written and its mean is the sum
\* of all scores over the number of all responses, rounded to 4 decimals.
C8_FlattenedMean ==
    (SummaryAttempted /\ TotalResponses > 0) =>
        record_file = << <<"dataset_path",
                           RoundHalfEven(10000 * TotalScore, TotalResponses)>> >>

----------------------------------------------------------------------------
\* Claims on main of merge_data.py

\* the number of times r occurs in q
RECURSIVE Count(_, _)
Count(q, r) ==
    IF q = <<>> THEN 0
    ELSE (IF Head(q) = r THEN 1 ELSE 0) + Count(Tail(q), r)

\* C9: the collection written holds every record as often as the shards hold
\* it together, and so is as long as the shards together.
C9_MergedIsPermutation ==
    gpc = "done" =>
        /\ Len(output_file) = SumSeq([n \in 1..Len(shards) |-> Len(shards[n])])
        /\ \A r \in MergeRecords :
             Count(output_file, r)
                = SumSeq([n \in 1..Len(shards) |-> Count(shards[n], r)])

\* a record held by two shards was written twice, in an order the shuffle changed
C9_Witness ==
    /\ gpc = "done"
    /\ Len(shards) = 2
    /\ \E r \in MergeRecords :
         /\ Count(shards[1], r) >= 1
         /\ Count(shards[2], r) >= 1
         /\ Count(output_file, r) >= 2
    /\ output_file # shards[1] \o shards[2]

====
